---- MODULE Spec2Model ----
(***************************************************************************)
(* Model of the DN codec of python-ldap's Modules/functions.c:             *)
(*   l_ldap_str2dn  (DN text -> list of lists of (type, value, flags))     *)
(*   l_ldap_dn2str  (nested (type, value, flags) structure -> DN text)     *)
(* The syntax engine (ldap_bv2dn / ldap_dn2bv / ldap_dnfree) is libldap,   *)
(* outside the repository; it is modelled from the specification's         *)
(* grammar (RFC 4514 style) over a small alphabet.                         *)
(***************************************************************************)
EXTENDS Integers, Sequences, FiniteSets

(* ------------------------------ bounds --------------------------------- *)
\* largest number of RDNs / of AVAs per RDN an input holds
MaxRdn == 2
MaxAva == 2

(* --------------------------- small helpers ----------------------------- *)
Range(s) == {s[k] : k \in 1..Len(s)}

RECURSIVE SeqsUpTo(_, _)
\* all sequences over S of length 0..n
SeqsUpTo(S, n) ==
    IF n = 0 THEN {<<>>}
    ELSE LET shorter == SeqsUpTo(S, n - 1)
         IN  shorter \cup {Append(q, x) : q \in shorter, x \in S}

RECURSIVE Join(_, _)
\* the strings of ss joined with separator sep
Join(ss, sep) ==
    IF ss = <<>> THEN <<>>
    ELSE IF Len(ss) = 1 THEN ss[1]
    ELSE ss[1] \o sep \o Join(Tail(ss), sep)

(* ------------------------- AVA flag constants -------------------------- *)
LDAP_AVA_STRING == 1
LDAP_AVA_BINARY == 2
LDAP_AVA_FREE_ATTR == 16
LDAP_AVA_FREE_VALUE == 32

\* bit k of the non-negative integer x
BitAt(x, k) == (x \div (2 ^ k)) % 2
\* the bit positions a flags word of this model uses
FlagBits == 0..5
\* exponent of a one-bit mask
BitIndex(mask) == CHOOSE k \in FlagBits : 2 ^ k = mask

\* a mask that names LDAP_AVA_FREE_ATTR alone
StripOneBit(x) == x - LDAP_AVA_FREE_ATTR * BitAt(x, BitIndex(LDAP_AVA_FREE_ATTR))
\* ava->la_flags & ~(LDAP_AVA_FREE_ATTR | LDAP_AVA_FREE_VALUE)
StripOwnership(x) ==
    x - LDAP_AVA_FREE_ATTR * BitAt(x, BitIndex(LDAP_AVA_FREE_ATTR))
      - LDAP_AVA_FREE_VALUE * BitAt(x, BitIndex(LDAP_AVA_FREE_VALUE))

(* -------------------- the syntax engine (libldap) ---------------------- *)
\* characters that a plain value must escape with a backslash
Special == {",", "+", "=", "\\", "#", ";"}

HexOf(c) ==
    CASE c = "a" -> <<"6", "1">>
      [] c = "b" -> <<"6", "2">>
      [] c = "c" -> <<"6", "3">>
      [] c = "," -> <<"2", "c">>
      [] OTHER   -> <<"0", "0">>
HexChars == {"a", "b", "c", ","}
UnHex(h, l) ==
    IF \E c \in HexChars : HexOf(c) = <<h, l>>
    THEN <<CHOOSE c \in HexChars : HexOf(c) = <<h, l>>>>
    ELSE <<>>

RECURSIVE EscapeValue(_)
EscapeValue(v) ==
    IF v = <<>> THEN <<>>
    ELSE (IF Head(v) \in Special THEN <<"\\", Head(v)>> ELSE <<Head(v)>>)
         \o EscapeValue(Tail(v))

RECURSIVE HexValue(_)
HexValue(v) == IF v = <<>> THEN <<>> ELSE HexOf(Head(v)) \o HexValue(Tail(v))

\* one AVA as text: type '=' escape(value, flags)
AvaStr(a) ==
    a.attr \o <<"=">> \o
    (IF BitAt(a.flags, BitIndex(LDAP_AVA_BINARY)) = 1
     THEN <<"#">> \o HexValue(a.value)
     ELSE EscapeValue(a.value))
RdnStr(r) == Join([k \in 1..Len(r) |-> AvaStr(r[k])], <<"+">>)
\* ldap_dn2bv on a well-terminated DN
DnStr(d) == Join([k \in 1..Len(d) |-> RdnStr(d[k])], <<",">>)

RECURSIVE SplitAt(_, _, _, _)
\* s cut at the unescaped separators of seps
SplitAt(s, seps, cur, acc) ==
    IF s = <<>> THEN Append(acc, cur)
    ELSE IF Head(s) = "\\" /\ Len(s) >= 2
         THEN SplitAt(Tail(Tail(s)), seps, cur \o <<s[1], s[2]>>, acc)
    ELSE IF Head(s) \in seps
         THEN SplitAt(Tail(s), seps, <<>>, Append(acc, cur))
    ELSE SplitAt(Tail(s), seps, Append(cur, Head(s)), acc)

RECURSIVE Unescape(_)
\* [ok, val]: the plain value with its backslash escapes removed
Unescape(v) ==
    IF v = <<>> THEN [ok |-> TRUE, val |-> <<>>]
    ELSE IF Head(v) = "\\"
         THEN IF Len(v) < 2 THEN [ok |-> FALSE, val |-> <<>>]
              ELSE LET rest == Unescape(Tail(Tail(v)))
                   IN  [ok |-> rest.ok, val |-> <<v[2]>> \o rest.val]
    ELSE LET rest == Unescape(Tail(v))
         IN  [ok |-> rest.ok, val |-> <<Head(v)>> \o rest.val]

RECURSIVE UnhexValue(_)
UnhexValue(v) ==
    IF v = <<>> THEN [ok |-> TRUE, val |-> <<>>]
    ELSE IF Len(v) < 2 \/ UnHex(v[1], v[2]) = <<>>
         THEN [ok |-> FALSE, val |-> <<>>]
    ELSE LET rest == UnhexValue(Tail(Tail(v)))
         IN  [ok |-> rest.ok, val |-> UnHex(v[1], v[2]) \o rest.val]

NoAva == [attr |-> <<>>, value |-> <<>>, flags |-> 0]

\* [ok, ava]: one 'type=value' piece
ParseAva(s) ==
    LET eqs == {k \in 1..Len(s) : s[k] = "="}
    IN  IF eqs = {} THEN [ok |-> FALSE, ava |-> NoAva]
        ELSE LET e    == CHOOSE k \in eqs : \A k2 \in eqs : k <= k2
                 attr == SubSeq(s, 1, e - 1)
                 raw  == SubSeq(s, e + 1, Len(s))
                 hex  == raw # <<>> /\ Head(raw) = "#"
                 dec  == IF hex THEN UnhexValue(Tail(raw)) ELSE Unescape(raw)
             IN  IF attr = <<>> \/ Range(attr) \cap Special # {} \/ ~dec.ok
                 THEN [ok |-> FALSE, ava |-> NoAva]
                 ELSE [ok  |-> TRUE,
                       ava |-> [attr  |-> attr,
                                value |-> dec.val,
                                flags |-> IF hex THEN LDAP_AVA_BINARY
                                                 ELSE LDAP_AVA_STRING]]

ParseRdn(s) ==
    LET parts == SplitAt(s, {"+"}, <<>>, <<>>)
        avas  == [k \in 1..Len(parts) |-> ParseAva(parts[k])]
    IN  [ok  |-> \A k \in 1..Len(avas) : avas[k].ok,
         rdn |-> [k \in 1..Len(avas) |-> avas[k].ava]]

\* ldap_bv2dn: [ok, dn]; the empty text is the empty DN
ParseDN(s) ==
    IF s = <<>> THEN [ok |-> TRUE, dn |-> <<>>]
    ELSE LET parts == SplitAt(s, {",", ";"}, <<>>, <<>>)
             rdns  == [k \in 1..Len(parts) |-> ParseRdn(parts[k])]
         IN  IF \A k \in 1..Len(rdns) : rdns[k].ok
             THEN [ok |-> TRUE, dn |-> [k \in 1..Len(rdns) |-> rdns[k].rdn]]
             ELSE [ok |-> FALSE, dn |-> <<>>]

\* ldap_dn2bv: an RDN without AVA or an AVA without type is refused
EngineAccepts(d) ==
    \A k \in 1..Len(d) :
        /\ d[k] # <<>>
        /\ \A l \in 1..Len(d[k]) : d[k][l].attr # <<>>

(* ------------------------- Python values ------------------------------- *)
PyStr(s) == [t |-> "str", s |-> s, n |-> 0]
PyInt(n) == [t |-> "int", s |-> <<>>, n |-> n]

\* the AVA elements an inner iterator may yield
GoodTuple == [kind |-> "tuple",
              items |-> <<PyStr(<<"a">>), PyStr(<<"b", ",">>), PyInt(LDAP_AVA_STRING)>>]
GoodList4 == [kind |-> "list",
              items |-> <<PyStr(<<"c">>), PyStr(<<"b">>), PyInt(LDAP_AVA_BINARY),
                          PyStr(<<"x">>)>>]
ShortTuple == [kind |-> "tuple", items |-> <<PyStr(<<"a">>), PyStr(<<"b">>)>>]
BadTypeTuple == [kind |-> "tuple",
                 items |-> <<PyStr(<<"a">>), PyInt(7), PyInt(LDAP_AVA_STRING)>>]
NotTuple == [kind |-> "other", items |-> <<PyStr(<<"a">>), PyStr(<<"b">>), PyInt(1)>>]
AvaObjs == {GoodTuple, GoodList4, ShortTuple, BadTypeTuple, NotTuple}

\* the kinds of element the outer iterator may yield, and of outer value
RdnKinds == {"tuple", "list", "gen", "int"}
OuterKinds == {"list", "iter", "nonIter"}
FlagArgs == {0}

\* PyList_Check(o) followed by PyList_AsTuple(o); PyTuple_Check(o)
IsTupleAfterConv(kind) == kind \in {"list", "tuple"}
\* a size test of exactly 3 in place of PyTuple_Size(next) < 3
AvaShapeExact(a) ==
    /\ IsTupleAfterConv(a.kind)
    /\ Len(a.items) = 3
    /\ a.items[1].t = "str"
    /\ a.items[2].t = "str"
    /\ a.items[3].t = "int"
\* PyTuple_Size(next) < 3 and the three item checks
AvaShapeOk(a) ==
    /\ IsTupleAfterConv(a.kind)
    /\ Len(a.items) >= 3
    /\ a.items[1].t = "str"
    /\ a.items[2].t = "str"
    /\ a.items[3].t = "int"
\* the LDAPAVA record filled from items 0, 1 and 2
AvaOf(a) == [attr |-> a.items[1].s, value |-> a.items[2].s, flags |-> a.items[3].n]

(* ------------------------- C heap arrays ------------------------------- *)
\* an array sized for every RDN and the terminator
DnCapacityCounted == MaxRdn + 1
\* malloc(sizeof(LDAPDN)), malloc(sizeof(LDAPRDN)): room for one pointer
DnCapacity == 1
RdnCapacity == 1

UninitAva == [tag |-> "uninit", v |-> NoAva]
MallocRdn == [cap |-> RdnCapacity, cells |-> [k \in 0..MaxAva |-> UninitAva]]
UninitRdn == [tag |-> "uninit", v |-> MallocRdn]
MallocDn == [cap |-> DnCapacity, cells |-> [k \in 0..MaxRdn |-> UninitRdn]]

\* arr[idx] = v
Store(arr, idx, v) == [arr EXCEPT !.cells[idx] = [tag |-> "ptr", v |-> v]]
InBounds(arr, idx) == idx < arr.cap
\* number of leading cells that hold a pointer
RECURSIVE Filled(_, _, _)
Filled(arr, k, max) ==
    IF k > max \/ arr.cells[k].tag # "ptr" THEN k ELSE Filled(arr, k + 1, max)
\* the entries the engine reads before the first cell that is not a pointer
RdnSeen(arr) == [k \in 1..Filled(arr, 0, MaxAva) |-> arr.cells[k - 1].v]
DnSeen(arr) == [k \in 1..Filled(arr, 0, MaxRdn) |-> RdnSeen(arr.cells[k - 1].v)]
\* the cells the engine reads as terminators
TermTags(arr) ==
    {arr.cells[Filled(arr, 0, MaxRdn)].tag}
    \cup {arr.cells[k].v.cells[Filled(arr.cells[k].v, 0, MaxAva)].tag :
              k \in 0..(Filled(arr, 0, MaxRdn) - 1)}

NoHeld == [dn |-> 0, rdn |-> 0, ava |-> 0, iter |-> 0, item |-> 0,
           conv |-> 0, bytes |-> 0, buf |-> 0]
Null == [tag |-> "NULL", s |-> <<>>, l |-> <<>>]
StrResult(s) == [tag |-> "str", s |-> s, l |-> <<>>]
ListResult(l) == [tag |-> "list", s |-> <<>>, l |-> l]
\* what a stale pointer after the array makes the engine append
StaleRdn == <<[attr |-> <<"c">>, value |-> <<"a">>, flags |-> LDAP_AVA_STRING]>>

VARIABLES
    op,          \* the function running: "dn2str" or "str2dn"
    pc,          \* its position
    flags,       \* the flags argument
    outerKind,   \* dn2str: kind of the dn_list argument
    given,       \* dn2str: the elements the caller's iterables yielded so far
    consumed,    \* dn2str: elements taken from a caller-owned one-shot iterator
    dn,          \* dn2str: the LDAPDN array
    rdn,         \* dn2str: the LDAPRDN array being filled
    i, j,        \* loop indices
    tmp,         \* dn2str: the tmp pointer: "uninit", "null" or "obj"
    held,        \* dn2str: working storage acquired and not released
    heapCorrupt, \* a write landed outside its allocation
    engineCalls, \* calls of ldap_dn2bv / ldap_bv2dn
    str,         \* the berval: str2dn's input, dn2str's engine output
    err,         \* the Python exception set
    result,      \* the value returned
    edn,         \* str2dn: the LDAPDN the engine parsed, NULL-terminated arrays
    outer,       \* str2dn: the list created for tmp: reference count, times freed, items
    inners,      \* str2dn: the rdnlist objects created, in order of creation
    tup,         \* str2dn: tuples created and tuples freed
    dnFreed,     \* str2dn: calls of ldap_dnfree(dn)
    rt           \* the text being parsed is the one dn2str has just returned

vars == <<op, pc, flags, outerKind, given, consumed, dn, rdn, i, j, tmp, held,
          heapCorrupt, engineCalls, str, err, result, edn, outer, inners, tup,
          dnFreed, rt>>
\* what l_ldap_dn2str leaves alone, and what l_ldap_str2dn leaves alone
pvars == <<edn, outer, inners, tup, dnFreed, rt>>
bvars == <<outerKind, given, consumed, dn, rdn, held, heapCorrupt>>

NoList == [rc |-> 0, freed |-> 0, items |-> <<>>]
NoTup == [made |-> 0, freed |-> 0]

\* line 169: dn is allocated in the declaration, before the arguments are parsed
InitDn2str ==
    /\ op = "dn2str"
    /\ pc = "args"
    /\ flags \in FlagArgs
    /\ outerKind \in OuterKinds
    /\ given = <<>>
    /\ consumed = 0
    /\ dn = MallocDn
    /\ rdn = MallocRdn
    /\ i = 0
    /\ j = 0
    /\ tmp = "uninit"
    /\ held = [NoHeld EXCEPT !.dn = 1]
    /\ heapCorrupt = FALSE
    /\ engineCalls = 0
    /\ str = <<>>
    /\ err = "none"
    /\ result = Null
    /\ edn = <<>>
    /\ outer = NoList
    /\ inners = <<>>
    /\ tup = NoTup
    /\ dnFreed = 0
    /\ rt = FALSE

\* the DN texts handed to str2dn: the texts of small DNs and malformed texts
AvaVals == {AvaOf(GoodTuple), AvaOf(GoodList4)}
SampleDNs == SeqsUpTo(SeqsUpTo(AvaVals, MaxAva) \ {<<>>}, MaxRdn)
BadTexts == {<<"=", "n">>, <<"a", "=", "b", ",">>, <<"a", "=", "b", "\\">>}
ParseInputs == {DnStr(d) : d \in SampleDNs} \cup BadTexts

InitStr2dn ==
    /\ op = "str2dn"
    /\ pc = "args"
    /\ flags \in FlagArgs
    /\ str \in ParseInputs
    /\ outerKind = "list"
    /\ given = <<>>
    /\ consumed = 0
    /\ dn = MallocDn
    /\ rdn = MallocRdn
    /\ i = 0
    /\ j = 0
    /\ tmp = "uninit"
    /\ held = NoHeld
    /\ heapCorrupt = FALSE
    /\ engineCalls = 0
    /\ err = "none"
    /\ result = Null
    /\ edn = <<>>
    /\ outer = NoList
    /\ inners = <<>>
    /\ tup = NoTup
    /\ dnFreed = 0
    /\ rt = FALSE

Init == InitDn2str \/ InitStr2dn

\* an iteration that takes the elements out of whatever the caller passed
AdvanceAlways(kind, c) == c + 1
\* PyIter_Next on the caller's object advances it only when it is its own iterator
Advance(kind, c) == IF kind = "iter" THEN c + 1 ELSE c

\* line 181: PyArg_ParseTuple
dn2str_ParseArgs ==
    /\ op = "dn2str" /\ pc = "args"
    /\ \/ /\ pc' = "returned"
          /\ err' = "ArgError"
       \/ /\ pc' = "getiter"
          /\ err' = err
    /\ UNCHANGED <<op, flags, outerKind, given, consumed, dn, rdn, i, j, tmp, held,
                   heapCorrupt, engineCalls, str, result>>
    /\ UNCHANGED pvars

\* lines 184-191: PyObject_GetIter(dn_list)
dn2str_GetIter ==
    /\ op = "dn2str" /\ pc = "getiter"
    /\ IF outerKind = "nonIter"
       THEN /\ err' = "TypeError"
            /\ pc' = "failed"
            /\ UNCHANGED <<held, i>>
       ELSE /\ err' = err
            /\ pc' = "outer"
            /\ held' = [held EXCEPT !.iter = @ + 1]
            /\ i' = 0
    /\ UNCHANGED <<op, flags, outerKind, given, consumed, dn, rdn, j, tmp,
                   heapCorrupt, engineCalls, str, result>>
    /\ UNCHANGED pvars

\* lines 193-209: the outer iterator yields an element
dn2str_OuterNext ==
    /\ op = "dn2str" /\ pc = "outer"
    /\ Len(given) < MaxRdn
    /\ \E kind \in RdnKinds :
          /\ given' = Append(given, [kind |-> kind, items |-> <<>>])
          /\ consumed' = Advance(outerKind, consumed)
          /\ IF IsTupleAfterConv(kind)
             THEN /\ held' = [held EXCEPT !.item = @ + 1,
                                          !.conv = @ + (IF kind = "list" THEN 1 ELSE 0),
                                          !.iter = @ + 1,
                                          !.rdn = @ + 1]
                  /\ rdn' = MallocRdn
                  /\ j' = 0
                  /\ pc' = "inner"
                  /\ err' = err
             ELSE /\ held' = [held EXCEPT !.item = @ + 1]
                  /\ err' = "TypeError"
                  /\ pc' = "failed"
                  /\ UNCHANGED <<rdn, j>>
    /\ UNCHANGED <<op, flags, outerKind, dn, i, tmp, heapCorrupt, engineCalls,
                   str, result>>
    /\ UNCHANGED pvars

\* lines 211-253: the inner iterator yields an element
dn2str_InnerNext ==
    /\ op = "dn2str" /\ pc = "inner"
    /\ Len(given[Len(given)].items) < MaxAva
    /\ \E a \in AvaObjs :
          /\ given' = [given EXCEPT ![Len(given)].items = Append(@, a)]
          /\ IF AvaShapeOk(a)
             THEN /\ held' = [held EXCEPT !.item = @ + 1,
                                          !.conv = @ + (IF a.kind = "list" THEN 1 ELSE 0),
                                          !.bytes = @ + 2,
                                          !.ava = @ + 1]
                  /\ rdn' = Store(rdn, j, AvaOf(a))
                  /\ heapCorrupt' = (heapCorrupt \/ ~InBounds(rdn, j))
                  /\ j' = j + 1
                  /\ UNCHANGED <<pc, err>>
             ELSE /\ held' = [held EXCEPT !.item = @ + 1,
                                          !.conv = @ + (IF a.kind = "list" THEN 1 ELSE 0)]
                  /\ err' = "TypeError"
                  /\ pc' = "failed"
                  /\ UNCHANGED <<rdn, heapCorrupt, j>>
    /\ UNCHANGED <<op, flags, outerKind, consumed, dn, i, tmp, engineCalls,
                   str, result>>
    /\ UNCHANGED pvars

\* lines 211-214 and 256-257: the inner iterator is exhausted; dn[i] = rdn
dn2str_EndRdn ==
    /\ op = "dn2str" /\ pc = "inner"
    /\ dn' = Store(dn, i, rdn)
    /\ heapCorrupt' = (heapCorrupt \/ ~InBounds(dn, i))
    /\ i' = i + 1
    /\ pc' = "outer"
    /\ UNCHANGED <<op, flags, outerKind, given, consumed, rdn, j, tmp, held,
                   engineCalls, str, err, result>>
    /\ UNCHANGED pvars

\* lines 193-196: the outer iterator is exhausted
dn2str_EndDn ==
    /\ op = "dn2str" /\ pc = "outer"
    /\ pc' = "engine"
    /\ UNCHANGED <<op, flags, outerKind, given, consumed, dn, rdn, i, j, tmp, held,
                   heapCorrupt, engineCalls, str, err, result>>
    /\ UNCHANGED pvars

\* lines 260-262: ldap_dn2bv(dn, &str, flags). The engine reads each array up to
\* its first NULL; a cell the code never wrote holds whatever malloc left there.
dn2str_Engine ==
    /\ op = "dn2str" /\ pc = "engine"
    /\ engineCalls' = engineCalls + 1
    /\ \E garbage \in BOOLEAN, outcome \in {"crash", "error", "text"} :
          /\ garbage => "uninit" \in TermTags(dn)
          /\ ~garbage => outcome = "text"
          /\ LET seen == IF garbage THEN Append(DnSeen(dn), StaleRdn) ELSE DnSeen(dn)
             IN  IF outcome = "crash"
                 THEN /\ pc' = "crashed"
                      /\ UNCHANGED <<str, err, held>>
                 ELSE IF outcome = "error" \/ ~EngineAccepts(seen)
                 THEN /\ pc' = "returned"
                      /\ err' = "LDAPError"
                      /\ UNCHANGED <<str, held>>
                 ELSE /\ pc' = "fromstring"
                      /\ str' = DnStr(seen)
                      /\ held' = [held EXCEPT !.buf = @ + 1]
                      /\ err' = err
    /\ UNCHANGED <<op, flags, outerKind, given, consumed, dn, rdn, i, j, tmp,
                   heapCorrupt, result>>
    /\ UNCHANGED pvars

\* lines 264-269: tmp = PyUnicode_FromString(str.bv_val)
dn2str_FromString ==
    /\ op = "dn2str" /\ pc = "fromstring"
    /\ \/ /\ err' = "MemoryError"
          /\ result' = result
       \/ /\ result' = StrResult(str)
          /\ err' = err
    /\ tmp' = "null"
    /\ pc' = "failed"
    /\ UNCHANGED <<op, flags, outerKind, given, consumed, dn, rdn, i, j, held,
                   heapCorrupt, engineCalls, str>>
    /\ UNCHANGED pvars

\* lines 271-274: Py_XDECREF(tmp); return result. tmp is read as the stack left
\* it when no assignment reached it.
dn2str_Failed ==
    /\ op = "dn2str" /\ pc = "failed"
    /\ \E seenNull \in BOOLEAN :
          /\ tmp = "null" => seenNull
          /\ pc' = IF seenNull THEN "returned" ELSE "crashed"
    /\ UNCHANGED <<op, flags, outerKind, given, consumed, dn, rdn, i, j, tmp, held,
                   heapCorrupt, engineCalls, str, err, result>>
    /\ UNCHANGED pvars

\* a write past an allocation may bring the process down at any later step
HeapAbort ==
    /\ heapCorrupt
    /\ pc \notin {"returned", "crashed"}
    /\ pc' = "crashed"
    /\ UNCHANGED <<op, flags, outerKind, given, consumed, dn, rdn, i, j, tmp, held,
                   heapCorrupt, engineCalls, str, err, result>>
    /\ UNCHANGED pvars

(* ------------------------------ str2dn --------------------------------- *)
\* the ownership bits the engine keeps in la_flags beside the syntax bits
OwnBits == {0, LDAP_AVA_FREE_ATTR, LDAP_AVA_FREE_VALUE,
            LDAP_AVA_FREE_ATTR + LDAP_AVA_FREE_VALUE}
WithOwn(d, own) ==
    [k \in 1..Len(d) |-> [l \in 1..Len(d[k]) |-> [d[k][l] EXCEPT !.flags = @ + own]]]

\* Py_DECREF of a list object
Decref(o) ==
    IF o.rc <= 1 THEN [o EXCEPT !.rc = 0, !.freed = @ + 1] ELSE [o EXCEPT !.rc = @ - 1]
\* the inner lists after the outer list dropped the references it holds
DropItems(o, ins) ==
    [k \in 1..Len(ins) |-> IF k \in Range(o.items) THEN Decref(ins[k]) ELSE ins[k]]
\* tuples freed with the inner lists that reach reference count 0
TuplesFreedWith(before, after) ==
    LET dead == {k \in 1..Len(before) : before[k].rc > 0 /\ after[k].rc = 0}
        RECURSIVE Sum(_)
        Sum(S) == IF S = {} THEN 0
                  ELSE LET k == CHOOSE x \in S : TRUE
                       IN  Len(before[k].items) + Sum(S \ {k})
    IN  Sum(dead)
\* Py_BuildValue("(O&O&i)", ...) for one LDAPAVA
TupleOf(ava) ==
    [attr |-> ava.attr, value |-> ava.value, flags |-> StripOwnership(ava.flags)]
\* the Python value of the outer list
ListValue(o, ins) == [k \in 1..Len(o.items) |-> ins[o.items[k]].items]

\* lines 106-108: PyArg_ParseTuple
str2dn_ParseArgs ==
    /\ op = "str2dn" /\ pc = "args"
    /\ \/ /\ ~rt
          /\ pc' = "returned"
          /\ err' = "ArgError"
       \/ /\ pc' = "engine"
          /\ err' = err
    /\ UNCHANGED <<op, flags, i, j, tmp, engineCalls, str, result>>
    /\ UNCHANGED <<edn, outer, inners, tup, dnFreed, rt>>
    /\ UNCHANGED bvars

\* lines 110-112: ldap_bv2dn(&str, &dn, flags)
str2dn_Engine ==
    /\ op = "str2dn" /\ pc = "engine"
    /\ engineCalls' = engineCalls + 1
    /\ LET r == ParseDN(str)
       IN  IF r.ok
           THEN /\ \E own \in OwnBits : edn' = WithOwn(r.dn, own)
                /\ pc' = "newlist"
                /\ err' = err
           ELSE /\ edn' = edn
                /\ pc' = "returned"
                /\ err' = "LDAPError"
    /\ UNCHANGED <<op, flags, i, j, tmp, str, result>>
    /\ UNCHANGED <<outer, inners, tup, dnFreed, rt>>
    /\ UNCHANGED bvars

\* lines 114-116: tmp = PyList_New(0)
str2dn_NewList ==
    /\ op = "str2dn" /\ pc = "newlist"
    /\ \/ /\ ~rt
          /\ tmp' = "null"
          /\ err' = "MemoryError"
          /\ pc' = "failed"
          /\ outer' = outer
       \/ /\ tmp' = "obj"
          /\ outer' = [rc |-> 1, freed |-> 0, items |-> <<>>]
          /\ pc' = "outer"
          /\ err' = err
    /\ i' = 0
    /\ UNCHANGED <<op, flags, j, engineCalls, str, result>>
    /\ UNCHANGED <<edn, inners, tup, dnFreed, rt>>
    /\ UNCHANGED bvars

\* lines 118-129: dn[i] is not NULL; rdnlist = PyList_New(0); PyList_Append(tmp, rdnlist)
str2dn_NextRdn ==
    /\ op = "str2dn" /\ pc = "outer"
    /\ i < Len(edn)
    /\ \/ /\ ~rt
          /\ err' = "MemoryError"
          /\ pc' = "failed"
          /\ UNCHANGED <<outer, inners, j>>
       \/ /\ ~rt
          /\ inners' = Append(inners, Decref([rc |-> 1, freed |-> 0, items |-> <<>>]))
          /\ err' = "MemoryError"
          /\ pc' = "failed"
          /\ UNCHANGED <<outer, j>>
       \/ /\ inners' = Append(inners, [rc |-> 2, freed |-> 0, items |-> <<>>])
          /\ outer' = [outer EXCEPT !.items = Append(@, Len(inners) + 1)]
          /\ j' = 0
          /\ pc' = "inner"
          /\ err' = err
    /\ UNCHANGED <<op, flags, i, tmp, engineCalls, str, result>>
    /\ UNCHANGED <<edn, tup, dnFreed, rt>>
    /\ UNCHANGED bvars

\* lines 131-149: rdn[j] is not NULL; build the tuple and append it to rdnlist
str2dn_NextAva ==
    /\ op = "str2dn" /\ pc = "inner"
    /\ j < Len(edn[i + 1])
    /\ \/ /\ ~rt
          /\ inners' = [inners EXCEPT ![Len(inners)] = Decref(@)]
          /\ err' = "MemoryError"
          /\ pc' = "failed"
          /\ UNCHANGED <<tup, j>>
       \/ /\ ~rt
          /\ tup' = [tup EXCEPT !.made = @ + 1, !.freed = @ + 1]
          /\ err' = "MemoryError"
          /\ pc' = "failed"
          /\ UNCHANGED <<inners, j>>
       \/ /\ inners' = [inners EXCEPT
                           ![Len(inners)].items = Append(@, TupleOf(edn[i + 1][j + 1]))]
          /\ tup' = [tup EXCEPT !.made = @ + 1]
          /\ j' = j + 1
          /\ UNCHANGED <<pc, err>>
    /\ UNCHANGED <<op, flags, i, tmp, engineCalls, str, result>>
    /\ UNCHANGED <<edn, outer, dnFreed, rt>>
    /\ UNCHANGED bvars

\* lines 131 and 151: rdn[j] is NULL; Py_DECREF(rdnlist)
str2dn_EndRdn ==
    /\ op = "str2dn" /\ pc = "inner"
    /\ j = Len(edn[i + 1])
    /\ inners' = [inners EXCEPT ![Len(inners)] = Decref(@)]
    /\ tup' = [tup EXCEPT !.freed = @ + TuplesFreedWith(inners, inners')]
    /\ i' = i + 1
    /\ pc' = "outer"
    /\ UNCHANGED <<op, flags, j, tmp, engineCalls, str, err, result>>
    /\ UNCHANGED <<edn, outer, dnFreed, rt>>
    /\ UNCHANGED bvars

\* lines 118 and 154-155: dn[i] is NULL; result = tmp; tmp = NULL
str2dn_EndDn ==
    /\ op = "str2dn" /\ pc = "outer"
    /\ i = Len(edn)
    /\ result' = ListResult(ListValue(outer, inners))
    /\ tmp' = "null"
    /\ pc' = "failed"
    /\ UNCHANGED <<op, flags, i, j, engineCalls, str, err>>
    /\ UNCHANGED <<edn, outer, inners, tup, dnFreed, rt>>
    /\ UNCHANGED bvars

\* lines 157-160: Py_XDECREF(tmp); ldap_dnfree(dn); return result
str2dn_Failed ==
    /\ op = "str2dn" /\ pc = "failed"
    /\ IF tmp = "obj"
       THEN /\ outer' = Decref(outer)
            /\ inners' = IF outer'.rc = 0 THEN DropItems(outer, inners) ELSE inners
            /\ tup' = [tup EXCEPT !.freed = @ + TuplesFreedWith(inners, inners')]
       ELSE UNCHANGED <<outer, inners, tup>>
    /\ dnFreed' = dnFreed + 1
    /\ pc' = "returned"
    /\ UNCHANGED <<op, flags, i, j, tmp, engineCalls, str, err, result>>
    /\ UNCHANGED <<edn, rt>>
    /\ UNCHANGED bvars

l_ldap_str2dn ==
    \/ str2dn_ParseArgs
    \/ str2dn_Engine
    \/ str2dn_NewList
    \/ str2dn_NextRdn
    \/ str2dn_NextAva
    \/ str2dn_EndRdn
    \/ str2dn_EndDn
    \/ str2dn_Failed

l_ldap_dn2str ==
    \/ dn2str_ParseArgs
    \/ dn2str_GetIter
    \/ dn2str_OuterNext
    \/ dn2str_InnerNext
    \/ dn2str_EndRdn
    \/ dn2str_EndDn
    \/ dn2str_Engine
    \/ dn2str_FromString
    \/ dn2str_Failed

Next == l_ldap_dn2str \/ l_ldap_str2dn \/ HeapAbort

Spec == Init /\ [][Next]_vars

\* the caller hands the text dn2str returned to str2dn, with the same flags
Reparse ==
    /\ op = "dn2str" /\ pc = "returned" /\ err = "none"
    /\ op' = "str2dn"
    /\ pc' = "args"
    /\ str' = result.s
    /\ result' = Null
    /\ tmp' = "uninit"
    /\ i' = 0
    /\ j' = 0
    /\ rt' = TRUE
    /\ UNCHANGED <<flags, engineCalls, err, edn, outer, inners, tup, dnFreed>>
    /\ UNCHANGED bvars

NextRT == Next \/ Reparse
SpecRT == Init /\ [][NextRT]_vars

(* ------------------------------ properties ----------------------------- *)
Terminal == pc \in {"returned", "crashed"}
\* an AVA element as the claims describe it: a list or tuple of three or more
\* items that starts (string, string, integer)
TripleLike(a) ==
    /\ a.kind \in {"list", "tuple"}
    /\ Len(a.items) >= 3
    /\ <<a.items[1].t, a.items[2].t, a.items[3].t>> = <<"str", "str", "int">>
\* its first three items
FirstThree(a) ==
    [attr |-> a.items[1].s, value |-> a.items[2].s, flags |-> a.items[3].n]
\* the DN value the caller's elements denote
GivenDn == [k \in 1..Len(given) |->
               [l \in 1..Len(given[k].items) |-> FirstThree(given[k].items[l])]]
AllAvasShaped ==
    \A k \in 1..Len(given) : \A l \in 1..Len(given[k].items) :
        TripleLike(given[k].items[l])
\* a well-formed DN value: list or tuple containers, non-empty RDNs, proper triples
WellFormedGiven ==
    /\ outerKind # "nonIter"
    /\ \A k \in 1..Len(given) :
          given[k].kind \in {"list", "tuple"} /\ given[k].items # <<>>
    /\ AllAvasShaped
\* the input holds an element of the wrong shape
InputMalformed ==
    \/ outerKind = "nonIter"
    \/ \E k \in 1..Len(given) : given[k].kind \notin {"list", "tuple"}
    \/ ~AllAvasShaped
\* the AVA records written so far are the first three items of the AVAs given
RecordsMatchGiven ==
    /\ \A k \in 1..Filled(dn, 0, MaxRdn) : RdnSeen(dn.cells[k - 1].v) = GivenDn[k]
    /\ pc = "inner" => RdnSeen(rdn) = GivenDn[Len(given)]

\* C1: round trip: for every well-formed DN value d, dn2str(d, f) returns a text
\* and str2dn of that text with the same f returns a list structurally equal to d.
C1_RoundTrip ==
    /\ (op = "dn2str" /\ Terminal /\ WellFormedGiven
            /\ err \notin {"ArgError", "MemoryError"})
       => (pc = "returned" /\ err = "none")
    /\ (rt /\ Terminal /\ WellFormedGiven)
       => (pc = "returned" /\ err = "none" /\ result = ListResult(GivenDn))

\* C2: in every list str2dn returns, each triple's flags have the bits
\* LDAP_AVA_FREE_ATTR and LDAP_AVA_FREE_VALUE cleared and every other bit equal
\* to the bit of the la_flags the engine stored for that AVA.
C2_OwnershipBitsCleared ==
    /\ \A x \in 0..(2 ^ Cardinality(FlagBits) - 1) : \A b \in FlagBits :
          BitAt(StripOwnership(x), b) =
              IF 2 ^ b \in {LDAP_AVA_FREE_ATTR, LDAP_AVA_FREE_VALUE}
              THEN 0
              ELSE BitAt(x, b)
    /\ (op = "str2dn" /\ pc = "returned" /\ err = "none")
       => /\ Len(result.l) = Len(edn)
          /\ \A k \in 1..Len(edn) :
                /\ Len(result.l[k]) = Len(edn[k])
                /\ \A l \in 1..Len(edn[k]) : \A b \in FlagBits :
                      BitAt(result.l[k][l].flags, b) =
                          IF 2 ^ b \in {LDAP_AVA_FREE_ATTR, LDAP_AVA_FREE_VALUE}
                          THEN 0
                          ELSE BitAt(edn[k][l].flags, b)
\* a parse returned a list although the engine had set both ownership bits
C2_Witness ==
    /\ op = "str2dn" /\ pc = "returned" /\ err = "none"
    /\ Len(edn) = MaxRdn
    /\ \E k \in 1..Len(edn) : \E l \in 1..Len(edn[k]) :
          /\ BitAt(edn[k][l].flags, BitIndex(LDAP_AVA_FREE_ATTR)) = 1
          /\ BitAt(edn[k][l].flags, BitIndex(LDAP_AVA_FREE_VALUE)) = 1
          /\ result.l[k][l].flags = LDAP_AVA_BINARY

\* C3: a dn2str call whose input holds a malformed element (outer value not
\* iterable, RDN element not a sequence, AVA too short or wrongly typed), at any
\* position, never calls the engine, returns no string and ends by returning
\* with TypeError set.
C3_ShapeRejected ==
    (op = "dn2str" /\ InputMalformed /\ err # "ArgError")
    => /\ engineCalls = 0
       /\ result = Null
       /\ Terminal => (pc = "returned" /\ err = "TypeError")

\* C4: when dn2str returns, on any path, none of the working storage the call
\* acquired is still held.
C4_AllReleased ==
    (op = "dn2str" /\ pc = "returned") => held = NoHeld

\* C5: str2dn returns either the complete list (one inner list per engine RDN,
\* one triple per engine AVA) or an error with no value; an engine rejection
\* builds no list; after a failure in the middle the outer list and every inner
\* list created have been released exactly once; the engine's DN is freed
\* exactly once on success and on a failure in the middle.
C5_AllOrNothing ==
    (op = "str2dn" /\ pc = "returned")
    => /\ err = "none" =>
             /\ result = ListResult([k \in 1..Len(edn) |->
                            [l \in 1..Len(edn[k]) |-> TupleOf(edn[k][l])]])
             /\ dnFreed = 1
       /\ err # "none" => result = Null
       /\ err = "LDAPError" => (outer = NoList /\ inners = <<>>)
       /\ err = "MemoryError" =>
             /\ tmp = "obj" => (outer.rc = 0 /\ outer.freed = 1)
             /\ \A k \in 1..Len(inners) : inners[k].rc = 0 /\ inners[k].freed = 1
             /\ tup.freed = tup.made
             /\ dnFreed = 1

C7_NothingConsumed ==
    (op = "dn2str" /\ err = "TypeError") => consumed = 0
\* C7 as amended: when dn2str fails with TypeError, a list or tuple argument has
\* lost nothing and an RDN element that is not a list or tuple has not been
\* iterated; a one-shot iterator given as the outer value has been advanced past
\* every element up to and including the one where the malformed element sits.
C7_ConsumedUpToFailure ==
    (op = "dn2str" /\ err = "TypeError")
    => /\ outerKind = "iter" => consumed = Len(given)
       /\ outerKind # "iter" => consumed = 0
       /\ \A k \in 1..Len(given) :
             given[k].kind \notin {"list", "tuple"} => given[k].items = <<>>
\* a one-shot iterator lost two elements to a call that returned TypeError
C7_Witness ==
    /\ op = "dn2str" /\ pc = "returned" /\ err = "TypeError"
    /\ outerKind = "iter" /\ consumed = 2
    /\ given[2].items # <<>>

\* C8: str2dn of the empty text with flags 0 returns the empty list; dn2str of
\* the empty outer sequence with flags 0 hands the engine a DN whose first cell
\* is NULL, and returns the empty string.
C8_EmptyDn ==
    /\ (op = "str2dn" /\ ~rt /\ str = <<>> /\ flags = 0 /\ pc = "returned"
            /\ err = "none")
       => result = ListResult(<<>>)
    /\ (op = "dn2str" /\ given = <<>> /\ pc = "engine")
       => dn.cells[0].tag = "null"
    /\ (op = "dn2str" /\ given = <<>> /\ outerKind # "nonIter" /\ flags = 0
            /\ Terminal /\ err \notin {"ArgError", "MemoryError"})
       => (pc = "returned" /\ result = StrResult(<<>>))

\* C9: dn2str allocates the DN array once and each RDN array once, each with room
\* for one pointer whatever the input size; when the loops end it has written one
\* entry per RDN at indices 0..n-1 and one per AVA at indices 0..m-1; all writes
\* stayed inside their allocation exactly when n <= 1 and every m <= 1.
C9_CapacityOne ==
    op = "dn2str" =>
       /\ dn.cap = 1 /\ rdn.cap = 1
       /\ \A k \in 0..MaxRdn : dn.cells[k].v.cap = 1
       /\ held.dn = 1
       /\ pc = "engine" =>
             /\ held.rdn = Len(given)
             /\ i = Len(given)
             /\ Filled(dn, 0, MaxRdn) = Len(given)
             /\ \A k \in 1..Len(given) :
                   Filled(dn.cells[k - 1].v, 0, MaxAva) = Len(given[k].items)
             /\ ~heapCorrupt <=>
                   (Len(given) <= 1 /\ \A k \in 1..Len(given) : Len(given[k].items) <= 1)
\* two RDNs, the first with two AVAs, were written into arrays of capacity one
C9_Witness ==
    /\ op = "dn2str" /\ pc = "engine"
    /\ Len(given) = 2 /\ Len(given[1].items) = 2
    /\ Filled(dn, 0, MaxRdn) = 2
    /\ dn.cap = 1
    /\ heapCorrupt

\* C10: when dn2str calls the engine, the DN array holds the n RDNs given
\* followed by NULL and each RDN array its m AVAs followed by NULL.
C10_NullTerminated ==
    (op = "dn2str" /\ pc = "engine")
    => /\ DnSeen(dn) = GivenDn
       /\ TermTags(dn) = {"null"}
====
